---- MODULE Spec2Model ----
(* A model of devpi_server/extpypi.py: the PyPI mirror registry           *)
(* (PyPIMirror), the changelog thread (thread_run / process_changelog),    *)
(* the per-project link cache and PyPIStage.getreleaselinks on a primary   *)
(* and on a replica, and the simple-index parser and crawler.              *)
EXTENDS Integers, Sequences, FiniteSets, TLC

(***************************************************************************)
(* Bounds of the model.                                                    *)
(***************************************************************************)
\* upstream events (serials), bootstrap included, when one request handler
\* thread runs; every further handler thread takes one event off the budget
MaxEvents == 3
\* request handler threads running getreleaselinks concurrently
MaxHandlers == 2

(***************************************************************************)
(* Names.  A name is a sequence of characters.                             *)
(***************************************************************************)
Lower(c) ==
    CASE c = "D" -> "d"
      [] c = "F" -> "f"
      [] c = "L" -> "l"
      [] OTHER -> c

IsSeparator(c) == c \in {"-", "_", "."}

\* lowercase, runs of "-", "_", "." collapsed to a single "-"
normalize_name(name) ==
    LET F[i \in 0..Len(name)] ==
          IF i = 0 THEN << >>
          ELSE IF IsSeparator(name[i])
               THEN IF i > 1 /\ IsSeparator(name[i-1])
                    THEN F[i-1]
                    ELSE Append(F[i-1], "-")
               ELSE Append(F[i-1], Lower(name[i]))
    IN  F[Len(name)]

\* raw project names the upstream uses
RawNames == { <<"D">>, <<"d">>, <<"F", "_", ".", "l">> }

\* names clients ask for
RequestNames == { <<"D">>, <<"f", ".", "l">>, <<"x">> }

Max(S) == CHOOSE x \in S : \A y \in S : y <= x

Range(f) == { f[x] : x \in DOMAIN f }

VARIABLES
    nthreads,       \* number of request handler threads of this server
    upstream,       \* the upstream changelog: sequence of [name, serial]
    name2serials,   \* PyPIMirror.name2serials (in memory)
    normname2name,  \* PyPIMirror.normname2name (in memory)
    blob,           \* the file .name2serials
    cache,          \* committed keyfs state: PYPILINKS(name) -> record
    writer,         \* holder of the keyfs write lock
    mpc,            \* position of the changelog thread
    changelog,      \* the batch thread_run handed to process_changelog
    mi,             \* index of the next batch entry
    changed,        \* process_changelog's local set
    txcache,        \* PYPILINKS as seen inside the open write transaction
    pc,             \* position of each request handler
    projectname,    \* argument of getreleaselinks
    info,           \* raw name found by get_project_info
    response,       \* the upstream response the handler holds
    links,          \* the handler's local releaselinks (line 264)
    nhttp,          \* HTTP requests the handler issued in this call
    result,         \* what getreleaselinks returned
    tx_serial,      \* replica: the last transaction serial applied locally
    master,         \* replica: PYPILINKS on the primary after each commit
    cpc,            \* position of a refresh between lines 262 and 264
    cpage,          \* response.text: the anchors of the simple page
    parser,         \* the IndexParser "result" of line 262
    pending,        \* perform_crawling's local set
    crawled         \* the crawl URLs fetched so far: [url, html]

mirrorvars == <<mpc, changelog, mi, changed, txcache>>
reqvars == <<pc, projectname, info, response, links, nhttp, result>>
replvars == <<tx_serial, master>>
crawlvars == <<cpc, cpage, parser, pending, crawled>>
vars == <<nthreads, upstream, name2serials, normname2name, blob, cache,
          writer, mirrorvars, reqvars, replvars, crawlvars>>

Handlers == 1..nthreads


(***************************************************************************)
(* URLs and pages.  A URL is kept parsed: scheme, path, basename (project  *)
(* name, version, extension; NoBasename when the path has no filename),    *)
(* md5 fragment ("" when absent) and egg fragment (<<>> when absent).      *)
(* A page is a sequence of anchors [url, rel].                             *)
(***************************************************************************)
NoBasename == [name |-> << >>, version |-> 0, ext |-> ""]

ALLOWED_ARCHIVE_EXTS == {"tgz", "zip"}

\* str.startswith
startswith(s, prefix) ==
    /\ Len(prefix) <= Len(s)
    /\ \A i \in 1..Len(prefix) : s[i] = prefix[i]

is_valid_http_url(url) == url.scheme \in {"http", "https"}

is_archive_of_project(url, project) ==
    /\ url.basename # NoBasename
    /\ startswith(normalize_name(url.basename.name), project)
    /\ url.basename.ext \in ALLOWED_ARCHIVE_EXTS

ExtRank(ext) == IF ext = "tgz" THEN 1 ELSE IF ext = "zip" THEN 2 ELSE 0

\* the code point of a character
CharCode(c) ==
    CASE c = "-" -> 45 [] c = "." -> 46 [] c = "D" -> 68 [] c = "F" -> 70
      [] c = "L" -> 76 [] c = "_" -> 95 [] c = "d" -> 100 [] c = "f" -> 102
      [] c = "l" -> 108 [] c = "x" -> 120 [] OTHER -> 0

\* a < b for strings
StrLess(a, b) ==
    \E i \in 1..(Len(a) + 1) :
        /\ \A j \in 1..(i - 1) : j <= Len(b) /\ a[j] = b[j]
        /\ i <= Len(b)
        /\ (i <= Len(a) => CharCode(a[i]) < CharCode(b[i]))

\* BasenameMeta: the comparison value of a link: project, version and
\* extension
BasenameMeta(url) ==
    <<normalize_name(url.basename.name), url.basename.version,
      ExtRank(url.basename.ext)>>

\* the order of BasenameMeta; equal values are told apart by the basename
BasenameMetaLess(a, b) ==
    LET ka == BasenameMeta(a)
        kb == BasenameMeta(b)
    IN  \/ StrLess(ka[1], kb[1])
        \/ ka[1] = kb[1] /\ ka[2] < kb[2]
        \/ ka[1] = kb[1] /\ ka[2] = kb[2] /\ ka[3] < kb[3]
        \/ ka = kb /\ StrLess(a.basename.name, b.basename.name)

\* a new IndexParser
IndexParser(name) ==
    [projectname |-> normalize_name(name),
     basename2link |-> << >>,
     crawllinks |-> {},
     egglinks |-> << >>]

\* no refresh is between lines 262 and 264
NoCrawl ==
    /\ cpc = "idle"
    /\ cpage = << >>
    /\ parser = IndexParser(<< >>)
    /\ pending = {}
    /\ crawled = << >>

\* mutant: the newest link for a basename wins
mergelink_ifbetter_always(P, newurl) ==
    [P EXCEPT !.basename2link =
        [b \in DOMAIN P.basename2link \cup {newurl.basename} |->
            IF b = newurl.basename THEN newurl ELSE P.basename2link[b]]]

mergelink_ifbetter(P, newurl) ==
    IF \/ newurl.basename \notin DOMAIN P.basename2link
       \/ (P.basename2link[newurl.basename].md5 = "" /\ newurl.md5 # "")
    THEN [P EXCEPT !.basename2link =
            [b \in DOMAIN P.basename2link \cup {newurl.basename} |->
                IF b = newurl.basename THEN newurl ELSE P.basename2link[b]]]
    ELSE P

\* sorted(..., reverse=True): the links of S in descending order
RECURSIVE sorted_reverse(_)
sorted_reverse(S) ==
    IF S = {} THEN << >>
    ELSE LET top == CHOOSE x \in S : \A y \in S \ {x} : BasenameMetaLess(y, x)
         IN  <<top>> \o sorted_reverse(S \ {top})

releaselinks(P) == P.egglinks \o sorted_reverse(Range(P.basename2link))

\* mutant: egg links are appended
parse_link_appends(st, newurl, scrape) ==
    IF ~is_valid_http_url(newurl) THEN st
    ELSE IF scrape /\ newurl.eggfragment # << >>
    THEN IF ~startswith(normalize_name(newurl.eggfragment), st.P.projectname)
         THEN st
         ELSE IF newurl.basename # NoBasename
              THEN IF \E i \in 1..Len(st.P.egglinks) : st.P.egglinks[i] = newurl
                   THEN st
                   ELSE [st EXCEPT !.P.egglinks = @ \o <<newurl>>]
              ELSE st
    ELSE IF is_archive_of_project(newurl, st.P.projectname)
    THEN [P |-> mergelink_ifbetter(st.P, newurl),
          seen |-> st.seen \cup {newurl}]
    ELSE st

\* one pass of the loop "for link in p.links" of IndexParser.parse_index;
\* st is [P, seen]
parse_link(st, newurl, scrape) ==
    IF ~is_valid_http_url(newurl) THEN st
    ELSE IF scrape /\ newurl.eggfragment # << >>
    THEN IF ~startswith(normalize_name(newurl.eggfragment), st.P.projectname)
         THEN st
         ELSE IF newurl.basename # NoBasename
              THEN IF \E i \in 1..Len(st.P.egglinks) : st.P.egglinks[i] = newurl
                   THEN st
                   ELSE [st EXCEPT !.P.egglinks = <<newurl>> \o @]
              ELSE st
    ELSE IF is_archive_of_project(newurl, st.P.projectname)
    THEN [P |-> mergelink_ifbetter(st.P, newurl),
          seen |-> st.seen \cup {newurl}]
    ELSE st

RECURSIVE parse_links(_, _, _, _)
parse_links(st, page, i, scrape) ==
    IF i > Len(page) THEN st
    ELSE parse_links(parse_link(st, page[i].url, scrape), page, i + 1, scrape)

\* mutant: rel-links are collected whatever scrape says
parse_index_into_always_collects(P, page, scrape) ==
    LET st == parse_links([P |-> P, seen |-> {}], page, 1, scrape)
        rel == { page[i].url : i \in { j \in 1..Len(page) : page[j].rel } }
    IN  [st.P EXCEPT !.crawllinks =
            @ \cup { u \in rel : u \notin st.seen /\ is_valid_http_url(u) }]

\* IndexParser.parse_index on the parser P
parse_index_into(P, page, scrape) ==
    LET st == parse_links([P |-> P, seen |-> {}], page, 1, scrape)
        rel == { page[i].url : i \in { j \in 1..Len(page) : page[j].rel } }
    IN  IF scrape
        THEN [st.P EXCEPT !.crawllinks =
                @ \cup { u \in rel : u \notin st.seen /\ is_valid_http_url(u) }]
        ELSE st.P

\* the module-level parse_index(disturl, html): the project is the basename
\* of the page's URL
parse_index(name, page) == parse_index_into(IndexParser(name), page, TRUE)

(***************************************************************************)
(* The upstream.  Event k of the changelog has serial k.  The simple page  *)
(* of a project as of serial s lists one archive per event of the project  *)
(* up to s (the newest one without digest) and an egg link; the page of a  *)
(* project whose name is in normalized form also has a homepage rel-link,  *)
(* and the homepage repeats the newest archive with its digest.            *)
(***************************************************************************)
ArchiveURL(name, version, md5) ==
    [scheme |-> "https", path |-> "packages",
     basename |-> [name |-> name, version |-> version, ext |-> "tgz"],
     md5 |-> md5, eggfragment |-> << >>]

EggURL(name) ==
    [scheme |-> "https", path |-> "repo",
     basename |-> [name |-> name, version |-> 0, ext |-> ""],
     md5 |-> "", eggfragment |-> name]

HomeURL(name, version) ==
    [scheme |-> "http", path |-> "home",
     basename |-> [name |-> name, version |-> version, ext |-> "html"],
     md5 |-> "", eggfragment |-> << >>]

\* serials of the upstream events of a project
SerialsOf(name) ==
    { upstream[i].serial : i \in { j \in 1..Len(upstream) : upstream[j].name = name } }

SimplePage(name, serial) ==
    LET evs == SelectSeq(upstream, LAMBDA e : e.name = name /\ e.serial <= serial)
    IN  [i \in 1..Len(evs) |->
            [url |-> ArchiveURL(name, evs[i].serial,
                                IF evs[i].serial = serial THEN "" ELSE "h"),
             rel |-> FALSE]]
        \o << [url |-> EggURL(name), rel |-> FALSE] >>
        \o (IF name = normalize_name(name)
            THEN << [url |-> HomeURL(name, serial), rel |-> TRUE] >>
            ELSE << >>)

CrawlPage(url) ==
    << [url |-> ArchiveURL(url.basename.name, url.basename.version, "h"),
        rel |-> FALSE] >>

\* XMLProxy.list_packages_with_serial
list_packages_with_serial ==
    [n \in { upstream[i].name : i \in 1..Len(upstream) } |-> Max(SerialsOf(n))]

\* XMLProxy.changelog_since_serial, when the upstream answers
changelog_since_serial(serial) ==
    SelectSeq(upstream, LAMBDA e : e.serial > serial)

(***************************************************************************)
(* The file store: entries and the triples the cache keeps of them.        *)
(***************************************************************************)
maplink(link) ==
    [relpath |-> <<link.path, link.basename>>,
     md5 |-> link.md5,
     key |-> [name |-> link.basename]]

get_proxy_file_entry(relpath, md5, keyname) ==
    [relpath |-> relpath, md5 |-> md5, key |-> [name |-> keyname]]

(***************************************************************************)
(* PyPIStage: the project cache.  c is the PYPILINKS key space, a function *)
(* from normalized names to records.                                       *)
(***************************************************************************)
\* mutant: the record is rewritten but an older latest_serial is kept
dump_project_cache_keep_latest(c, name, entries, serial) ==
    LET normname == normalize_name(name)
        dumplist == [i \in 1..Len(entries) |->
                        <<entries[i].relpath, entries[i].md5, entries[i].key.name>>]
        data == [serial |-> serial,
                 latest_serial |-> IF normname \in DOMAIN c
                                   THEN c[normname].latest_serial ELSE serial,
                 entrylist |-> dumplist,
                 projectname |-> name]
    IN  [k \in DOMAIN c \cup {normname} |-> IF k = normname THEN data ELSE c[k]]

\* mutant: the record is stored under the raw name
dump_project_cache_rawkey(c, name, entries, serial) ==
    LET dumplist == [i \in 1..Len(entries) |->
                        <<entries[i].relpath, entries[i].md5, entries[i].key.name>>]
        data == [serial |-> serial,
                 latest_serial |-> serial,
                 entrylist |-> dumplist,
                 projectname |-> name]
    IN  [k \in DOMAIN c \cup {name} |-> IF k = name THEN data ELSE c[k]]

dump_project_cache(c, name, entries, serial) ==
    LET normname == normalize_name(name)
        dumplist == [i \in 1..Len(entries) |->
                        <<entries[i].relpath, entries[i].md5, entries[i].key.name>>]
        data == [serial |-> serial,
                 latest_serial |-> serial,
                 entrylist |-> dumplist,
                 projectname |-> name]
    IN  [k \in DOMAIN c \cup {normname} |-> IF k = normname THEN data ELSE c[k]]

\* [found, data]: found is false where the code gets None
load_project_cache(c, name) ==
    LET normname == normalize_name(name)
    IN  IF normname \in DOMAIN c
        THEN [found |-> TRUE, data |-> c[normname]]
        ELSE [found |-> FALSE, data |-> << >>]

\* mutant: the entries come back in reverse order
load_cache_entries_reversed(c, name) ==
    LET got == load_project_cache(c, name)
        n == IF got.found THEN Len(got.data.entrylist) ELSE 0
    IN  IF got.found /\ got.data.serial >= got.data.latest_serial
        THEN [hit |-> TRUE,
              entries |-> [i \in 1..n |->
                             get_proxy_file_entry(got.data.entrylist[n + 1 - i][1],
                                                  got.data.entrylist[n + 1 - i][2],
                                                  got.data.entrylist[n + 1 - i][3])]]
        ELSE [hit |-> FALSE, entries |-> << >>]

\* [hit, entries]: hit is false where the code returns None
load_cache_entries(c, name) ==
    LET got == load_project_cache(c, name)
    IN  IF got.found /\ got.data.serial >= got.data.latest_serial
        THEN [hit |-> TRUE,
              entries |-> [i \in 1..Len(got.data.entrylist) |->
                             get_proxy_file_entry(got.data.entrylist[i][1],
                                                  got.data.entrylist[i][2],
                                                  got.data.entrylist[i][3])]]
        ELSE [hit |-> FALSE, entries |-> << >>]

\* get_project_info: the raw name, NoInfo where the code returns None
NoInfo == << >>

\* mutant: the name is not looked up in name2serials
get_project_info_nocheck(name) ==
    LET norm_name == normalize_name(name)
    IN  IF norm_name \in DOMAIN normname2name
        THEN normname2name[norm_name] ELSE norm_name

get_project_info(name) ==
    LET norm_name == normalize_name(name)
        n == IF norm_name \in DOMAIN normname2name
             THEN normname2name[norm_name] ELSE norm_name
    IN  IF n \in DOMAIN name2serials THEN n ELSE NoInfo

(***************************************************************************)
(* PyPIMirror: the registry.                                               *)
(***************************************************************************)
\* normname2name as init_pypi_mirror builds it from a name2serials
init_normname2name(n2s) ==
    LET differ == { n \in DOMAIN n2s : normalize_name(n) # n }
    IN  [k \in { normalize_name(n) : n \in differ } |->
            CHOOSE n \in differ : normalize_name(n) = k]

\* mutant: the normalization table is not filled
set_project_serial_nofill(n2s, nn2n, name, serial) ==
    [name2serials |->
        [k \in DOMAIN n2s \cup {name} |-> IF k = name THEN serial ELSE n2s[k]],
     normname2name |-> nn2n]

\* set_project_serial: the two tables afterwards
set_project_serial(n2s, nn2n, name, serial) ==
    LET n == normalize_name(name)
    IN  [name2serials |->
            [k \in DOMAIN n2s \cup {name} |-> IF k = name THEN serial ELSE n2s[k]],
         normname2name |->
            IF n # name
            THEN [k \in DOMAIN nn2n \cup {n} |-> IF k = n THEN name ELSE nn2n[k]]
            ELSE nn2n]

(***************************************************************************)
(* Initial state: init_pypi_mirror with no mirror state on disk; the       *)
(* upstream knows one project.                                             *)
(***************************************************************************)
NoResult == [kind |-> "none", entries |-> << >>, status |-> 0]
Entries(es) == [kind |-> "entries", entries |-> es, status |-> 0]
Status(code) == [kind |-> "status", entries |-> << >>, status |-> code]

NoResponse == [serial |-> -1, devpi_serial |-> -1]

Init ==
    /\ nthreads \in 1..MaxHandlers
    /\ upstream = << [name |-> <<"F", "_", ".", "l">>, serial |-> 1] >>
    /\ name2serials = list_packages_with_serial
    /\ normname2name = init_normname2name(name2serials)
    /\ blob = name2serials
    /\ cache = << >>
    /\ writer = "none"
    /\ mpc = "poll"
    /\ changelog = << >>
    /\ mi = 1
    /\ changed = {}
    /\ txcache = << >>
    /\ pc = [r \in Handlers |-> "idle"]
    /\ projectname = [r \in Handlers |-> << >>]
    /\ info = [r \in Handlers |-> NoInfo]
    /\ response = [r \in Handlers |-> NoResponse]
    /\ links = [r \in Handlers |-> << >>]
    /\ nhttp = [r \in Handlers |-> 0]
    /\ result = [r \in Handlers |-> NoResult]
    /\ tx_serial = 0
    /\ master = << >>
    /\ NoCrawl

(***************************************************************************)
(* The upstream registers an event for a project.                          *)
(***************************************************************************)
UpstreamEvent ==
    /\ Len(upstream) + (nthreads - 1) < MaxEvents
    /\ \E n \in RawNames :
         upstream' = Append(upstream, [name |-> n, serial |-> Len(upstream) + 1])
    /\ UNCHANGED <<replvars, crawlvars, nthreads, name2serials, normname2name, blob, cache, writer,
                   mirrorvars, reqvars>>

(***************************************************************************)
(* PyPIMirror.thread_run, one action per step of an iteration.             *)
(***************************************************************************)
\* mutant: an absent or empty reply ends the loop
thread_run_branch_stops(got) == IF got # << >> THEN "begin" ELSE "stopped"

\* line 358, "if changelog:": None and the empty list are both false
thread_run_branch(got) == IF got # << >> THEN "begin" ELSE "sleep"

\* lines 356-358: the cursor, the XML-RPC call, "if changelog:"
thread_run_poll ==
    /\ mpc = "poll"
    /\ LET current_serial == Max(Range(name2serials))
       IN  \E reply \in {"error", "status", "ok"} :
             LET got == IF reply = "ok"
                        THEN changelog_since_serial(current_serial)
                        ELSE << >>
             IN  /\ changelog' = got
                 /\ mpc' = thread_run_branch(got)
    /\ UNCHANGED <<replvars, crawlvars, nthreads, upstream, name2serials, normname2name, blob, cache, writer,
                   mi, changed, txcache, reqvars>>

\* line 359: keyfs.transaction(write=True) takes the write lock
thread_run_begin ==
    /\ mpc = "begin"
    /\ writer = "none"
    /\ writer' = "mirror"
    /\ txcache' = cache
    /\ mi' = 1
    /\ changed' = {}
    /\ mpc' = "process"
    /\ UNCHANGED <<replvars, crawlvars, nthreads, upstream, name2serials, normname2name, blob, cache,
                   changelog, reqvars>>

\* mutant: latest_serial is set without the comparison
bump_latest_always(c, normname, serial) ==
    IF normname \in DOMAIN c
    THEN [cache |-> [c EXCEPT ![normname].latest_serial = serial],
          returned |-> FALSE]
    ELSE [cache |-> c, returned |-> FALSE]

\* mutant: the record is left alone
bump_latest_noop(c, normname, serial) ==
    [cache |-> c,
     returned |-> normname \in DOMAIN c /\ c[normname].latest_serial >= serial]

\* mutant: any record makes process_changelog return
bump_latest_returns(c, normname, serial) ==
    [cache |-> c, returned |-> normname \in DOMAIN c]

\* lines 372-378 for one entry x: [cache, returned]
bump_latest(c, normname, serial) ==
    IF normname \in DOMAIN c
    THEN IF c[normname].latest_serial >= serial
         THEN [cache |-> c, returned |-> TRUE]
         ELSE [cache |-> [c EXCEPT ![normname].latest_serial = serial],
               returned |-> FALSE]
    ELSE [cache |-> c, returned |-> FALSE]

\* lines 366-380: one pass of the loop of process_changelog
process_changelog_entry ==
    /\ mpc = "process"
    /\ LET x == changelog[mi]
           reg == set_project_serial(name2serials, normname2name, x.name, x.serial)
           normname == normalize_name(x.name)
           b == bump_latest(txcache, normname, x.serial)
       IN  /\ name2serials' = reg.name2serials
           /\ normname2name' = reg.normname2name
           /\ changed' = changed \cup {normname}
           /\ txcache' = b.cache
           /\ mi' = mi + 1
           /\ mpc' = IF b.returned THEN "commit"
                     ELSE IF mi = Len(changelog) THEN "dump" ELSE "process"
    /\ UNCHANGED <<replvars, crawlvars, nthreads, upstream, blob, cache, writer, changelog, reqvars>>

\* lines 385-386: dump_to_file, still inside the transaction
process_changelog_dump ==
    /\ mpc = "dump"
    /\ blob' = IF name2serials # << >> THEN name2serials ELSE blob
    /\ mpc' = "commit"
    /\ UNCHANGED <<replvars, crawlvars, nthreads, upstream, name2serials, normname2name, cache, writer,
                   changelog, mi, changed, txcache, reqvars>>

\* the end of the with-block of line 359: commit, release the lock
thread_run_commit ==
    /\ mpc = "commit"
    /\ cache' = txcache
    /\ writer' = "none"
    /\ mpc' = "sleep"
    /\ UNCHANGED <<replvars, crawlvars, nthreads, upstream, name2serials, normname2name, blob,
                   changelog, mi, changed, txcache, reqvars>>

\* line 361: the refresh sleep ends
thread_run_sleep ==
    /\ mpc = "sleep"
    /\ mpc' = "poll"
    /\ changelog' = << >>
    /\ mi' = 1
    /\ changed' = {}
    /\ txcache' = << >>
    /\ UNCHANGED <<replvars, crawlvars, nthreads, upstream, name2serials, normname2name, blob, cache, writer,
                   reqvars>>

(***************************************************************************)
(* PyPIStage.getreleaselinks on the primary, one action per stretch        *)
(* between two suspension points.                                          *)
(***************************************************************************)
\* statuses other than 200 that httpget hands back (-1: not reachable)
ErrorStatuses == {503, -1}

\* mutant: a page with the registry's own serial is refused too
fresh_enough_strict(serial, newest_serial) == serial > newest_serial

\* line 253 negated: the page is fresh enough for the registry
fresh_enough(serial, newest_serial) == ~(serial < newest_serial)

\* line 252: name2serials.get(name, -1)
newest_serial_of(name) ==
    IF name \in DOMAIN name2serials THEN name2serials[name] ELSE -1

\* lines 221-230: cache lookup, registry lookup, the request is sent
getreleaselinks_start(r) ==
    /\ pc[r] = "idle"
    /\ \E name \in RequestNames :
         LET got == load_cache_entries(cache, name)
             i == get_project_info(name)
         IN  /\ projectname' = [projectname EXCEPT ![r] = name]
             /\ IF got.hit
                THEN /\ result' = [result EXCEPT ![r] = Entries(got.entries)]
                     /\ pc' = [pc EXCEPT ![r] = "done"]
                     /\ UNCHANGED <<info, nhttp>>
                ELSE IF i = NoInfo
                THEN /\ result' = [result EXCEPT ![r] = Status(404)]
                     /\ pc' = [pc EXCEPT ![r] = "done"]
                     /\ UNCHANGED <<info, nhttp>>
                ELSE /\ info' = [info EXCEPT ![r] = i]
                     /\ nhttp' = [nhttp EXCEPT ![r] = 1]
                     /\ pc' = [pc EXCEPT ![r] = "httpget"]
                     /\ UNCHANGED result
    /\ UNCHANGED <<replvars, crawlvars, nthreads, upstream, name2serials, normname2name, blob, cache, writer,
                   mirrorvars, response, links>>

\* lines 231-232: the upstream answers with a status other than 200
getreleaselinks_error(r) ==
    /\ pc[r] = "httpget"
    /\ \E code \in ErrorStatuses :
         result' = [result EXCEPT ![r] = Status(code)]
    /\ pc' = [pc EXCEPT ![r] = "done"]
    /\ UNCHANGED <<replvars, crawlvars, nthreads, upstream, name2serials, normname2name, blob, cache, writer,
                   mirrorvars, projectname, info, response, links, nhttp>>

\* the orders in which set.pop can hand out the members of S
Orders(S) ==
    { o \in [1..Cardinality(S) -> S] : \A u \in S : \E i \in DOMAIN o : o[i] = u }

\* lines 132-149: perform_crawling, visiting the crawl links in the order
\* the set hands them out; html is the set of URLs answering 200 text/html
RECURSIVE perform_crawling(_, _, _)
perform_crawling(P, order, html) ==
    IF order = << >> THEN P
    ELSE LET crawlurl == Head(order)
         IN  perform_crawling(
                 IF crawlurl \in html
                 THEN parse_index_into(P, CrawlPage(crawlurl), FALSE)
                 ELSE P,
                 Tail(order), html)

\* lines 246-264: the upstream answers 200 with the page as of one of the
\* project's serials (a CDN may lag); serial check, parse, crawl
getreleaselinks_page(r) ==
    /\ pc[r] = "httpget"
    /\ \E serial \in SerialsOf(info[r]) :
         IF fresh_enough(serial, newest_serial_of(info[r]))
         THEN LET P == parse_index(info[r], SimplePage(info[r], serial))
              IN  \E order \in Orders(P.crawllinks), html \in SUBSET P.crawllinks :
                    /\ response' = [response EXCEPT ![r] = [serial |-> serial, devpi_serial |-> -1]]
                    /\ links' = [links EXCEPT ![r] =
                          releaselinks(perform_crawling(P, order, html))]
                    /\ nhttp' = [nhttp EXCEPT ![r] = @ + Len(order)]
                    /\ pc' = [pc EXCEPT ![r] = "store"]
                    /\ UNCHANGED result
         ELSE /\ response' = [response EXCEPT ![r] = [serial |-> serial, devpi_serial |-> -1]]
              /\ result' = [result EXCEPT ![r] = Status(-2)]
              /\ pc' = [pc EXCEPT ![r] = "done"]
              /\ UNCHANGED <<links, nhttp>>
    /\ UNCHANGED <<replvars, crawlvars, nthreads, upstream, name2serials, normname2name, blob, cache, writer,
                   mirrorvars, projectname, info>>

\* lines 266-271: the write transaction, maplink, the record, the return
getreleaselinks_store(r) ==
    /\ pc[r] = "store"
    /\ writer = "none"
    /\ LET entries == [i \in 1..Len(links[r]) |-> maplink(links[r][i])]
       IN  /\ cache' = dump_project_cache(cache, info[r], entries,
                                           response[r].serial)
           /\ result' = [result EXCEPT ![r] = Entries(entries)]
    /\ pc' = [pc EXCEPT ![r] = "done"]
    /\ UNCHANGED <<replvars, crawlvars, nthreads, upstream, name2serials, normname2name, blob, writer,
                   mirrorvars, projectname, info, response, links, nhttp>>

\* the caller has the result; the handler is free for the next request
getreleaselinks_return(r) ==
    /\ pc[r] = "done"
    /\ pc' = [pc EXCEPT ![r] = "idle"]
    /\ projectname' = [projectname EXCEPT ![r] = << >>]
    /\ info' = [info EXCEPT ![r] = NoInfo]
    /\ response' = [response EXCEPT ![r] = NoResponse]
    /\ links' = [links EXCEPT ![r] = << >>]
    /\ nhttp' = [nhttp EXCEPT ![r] = 0]
    /\ result' = [result EXCEPT ![r] = NoResult]
    /\ UNCHANGED <<replvars, crawlvars, nthreads, upstream, name2serials, normname2name, blob, cache, writer,
                   mirrorvars>>

Next ==
    \/ UpstreamEvent
    \/ thread_run_poll
    \/ thread_run_begin
    \/ process_changelog_entry
    \/ process_changelog_dump
    \/ thread_run_commit
    \/ thread_run_sleep
    \/ \E r \in Handlers : getreleaselinks_start(r)
    \/ \E r \in Handlers : getreleaselinks_error(r)
    \/ \E r \in Handlers : getreleaselinks_page(r)
    \/ \E r \in Handlers : getreleaselinks_store(r)
    \/ \E r \in Handlers : getreleaselinks_return(r)

Spec == Init /\ [][Next]_vars

(***************************************************************************)
(* The server with one request handler, the changelog thread scheduled     *)
(* fairly and an upstream that answers a poll again and again.             *)
(***************************************************************************)
InitLive == Init /\ nthreads = 1

\* a poll the upstream answers with a batch
thread_run_poll_ok == thread_run_poll /\ changelog' # << >>

\* a step of the changelog thread
thread_run_step ==
    \/ thread_run_poll
    \/ thread_run_begin
    \/ process_changelog_entry
    \/ process_changelog_dump
    \/ thread_run_commit
    \/ thread_run_sleep

\* the thread runs on, and of the polls that could be answered with a
\* batch some are
Fairness ==
    /\ WF_vars(thread_run_step)
    /\ SF_vars(thread_run_poll_ok)

SpecLive == InitLive /\ [][Next]_vars /\ Fairness

(***************************************************************************)
(* Lines 262-264 step by step: parse_index on the simple page of project   *)
(* "d", perform_crawling one fetch at a time, releaselinks.  The simple     *)
(* page is any sequence of anchors.                                        *)
(***************************************************************************)
\* anchors of the simple page
MaxPageLen == 3

CrawlProject == <<"d">>

ZipURL(name, version, md5) ==
    [ArchiveURL(name, version, md5) EXCEPT !.basename.ext = "zip"]

\* the same file on another host
MirrorURL(name, version, md5) ==
    [ArchiveURL(name, version, md5) EXCEPT !.path = "mirror"]

\* an archive URL with an egg fragment
EggArchiveURL(name, version, egg) ==
    [ArchiveURL(name, version, "") EXCEPT !.eggfragment = egg]

\* an egg link to a directory: no filename component
EggDirURL(name) == [EggURL(name) EXCEPT !.basename = NoBasename]

FtpURL(name, version) == [HomeURL(name, version) EXCEPT !.scheme = "ftp"]

Anchor(url, rel) == [url |-> url, rel |-> rel]

PageAnchors ==
    { Anchor(ArchiveURL(<<"d">>, 1, ""), FALSE),
      Anchor(ArchiveURL(<<"d">>, 1, "h"), FALSE),
      Anchor(ArchiveURL(<<"d">>, 1, ""), TRUE),
      Anchor(ArchiveURL(<<"D">>, 1, ""), FALSE),
      Anchor(ZipURL(<<"d">>, 2, "h"), FALSE),
      Anchor(ArchiveURL(<<"x">>, 1, ""), FALSE),
      Anchor(EggURL(<<"d">>), FALSE),
      Anchor(EggURL(<<"d", "x">>), FALSE),
      Anchor(EggURL(<<"x">>), FALSE),
      Anchor(EggDirURL(<<"d">>), FALSE),
      Anchor(EggArchiveURL(<<"d">>, 3, <<"x">>), FALSE),
      Anchor(HomeURL(<<"d">>, 1), TRUE),
      Anchor(HomeURL(<<"d">>, 2), TRUE),
      Anchor(HomeURL(<<"d">>, 3), TRUE),
      Anchor(FtpURL(<<"d">>, 1), TRUE) }

\* the page behind a crawl URL: the first homepage repeats an archive with
\* its digest, names an archive in a URL with an egg fragment and has a
\* rel-link of its own; the second names the file on another host, then
\* without digest
ScrapePage(url) ==
    IF url.basename.version = 1
    THEN << Anchor(ArchiveURL(<<"d">>, 1, "h"), FALSE),
            Anchor(EggArchiveURL(<<"d">>, 3, <<"x">>), FALSE),
            Anchor(HomeURL(<<"d">>, 4), TRUE) >>
    ELSE << Anchor(MirrorURL(<<"d">>, 1, "m"), FALSE),
            Anchor(ArchiveURL(<<"d">>, 1, ""), FALSE),
            Anchor(EggURL(<<"d">>), FALSE) >>

\* sorted(..., reverse=True) of the links in the order the dict hands them
\* out: the sort is stable, equal values keep that order
RECURSIVE sorted_reverse_stable(_)
sorted_reverse_stable(order) ==
    IF order = << >> THEN << >>
    ELSE LET x == Head(order)
             rest == sorted_reverse_stable(Tail(order))
             k == Cardinality({ i \in 1..Len(rest) : BasenameMetaLess(x, rest[i]) })
         IN  SubSeq(rest, 1, k) \o <<x>> \o SubSeq(rest, k + 1, Len(rest))

\* mutant: the archive links come before the egg links
releaselinks_from_archives_first(P, order) ==
    sorted_reverse_stable(order) \o P.egglinks

\* lines 50-52 with basename2link.values() handed out as order
releaselinks_from(P, order) == P.egglinks \o sorted_reverse_stable(order)

InitCrawl ==
    /\ nthreads = 1
    /\ upstream = << [name |-> CrawlProject, serial |-> 1] >>
    /\ name2serials = list_packages_with_serial
    /\ normname2name = init_normname2name(name2serials)
    /\ blob = name2serials
    /\ cache = << >>
    /\ writer = "none"
    /\ mpc = "sleep"
    /\ changelog = << >>
    /\ mi = 1
    /\ changed = {}
    /\ txcache = << >>
    /\ pc = [r \in Handlers |-> "httpget"]
    /\ projectname = [r \in Handlers |-> CrawlProject]
    /\ info = [r \in Handlers |-> CrawlProject]
    /\ response = [r \in Handlers |-> [serial |-> 1, devpi_serial |-> -1]]
    /\ links = [r \in Handlers |-> << >>]
    /\ nhttp = [r \in Handlers |-> 1]
    /\ result = [r \in Handlers |-> NoResult]
    /\ tx_serial = 0
    /\ master = << >>
    /\ cpc = "page"
    /\ cpage \in UNION { [1..n -> PageAnchors] : n \in 0..MaxPageLen }
    /\ parser = IndexParser(<< >>)
    /\ pending = {}
    /\ crawled = << >>

\* line 262 and line 133: the page is parsed, pending = set(crawllinks)
crawl_parse_index ==
    /\ cpc = "page"
    /\ parser' = parse_index(info[1], cpage)
    /\ pending' = parser'.crawllinks
    /\ cpc' = "crawl"
    /\ UNCHANGED <<replvars, nthreads, upstream, name2serials, normname2name,
                   blob, cache, writer, mirrorvars, reqvars, cpage, crawled>>

\* lines 134-149: one pass of the loop; set.pop hands out any member
crawl_visit ==
    /\ cpc = "crawl"
    /\ pending # {}
    /\ \E crawlurl \in pending, reply \in {"html", "plain", "status"} :
         /\ pending' = pending \ {crawlurl}
         /\ nhttp' = [nhttp EXCEPT ![1] = @ + 1]
         /\ crawled' = Append(crawled, [url |-> crawlurl, html |-> reply = "html"])
         /\ parser' = IF reply = "html"
                       THEN parse_index_into(parser, ScrapePage(crawlurl), FALSE)
                       ELSE parser
    /\ UNCHANGED <<replvars, nthreads, upstream, name2serials, normname2name,
                   blob, cache, writer, mirrorvars, pc, projectname, info,
                   response, links, result, cpc, cpage>>

\* line 134 with pending empty, then line 264
crawl_releaselinks ==
    /\ cpc = "crawl"
    /\ pending = {}
    /\ \E order \in Orders(Range(parser.basename2link)) :
         links' = [links EXCEPT ![1] = releaselinks_from(parser, order)]
    /\ cpc' = "done"
    /\ pc' = [pc EXCEPT ![1] = "store"]
    /\ UNCHANGED <<replvars, nthreads, upstream, name2serials, normname2name,
                   blob, cache, writer, mirrorvars, projectname, info,
                   response, nhttp, result, cpage, parser, pending, crawled>>

NextCrawl ==
    \/ crawl_parse_index
    \/ crawl_visit
    \/ crawl_releaselinks

SpecCrawl == InitCrawl /\ [][NextCrawl]_vars

(***************************************************************************)
(* The registry alone: init_pypi_mirror on any name/serial list, then any  *)
(* sequence of set_project_serial.                                         *)
(***************************************************************************)
\* raw names of the registry; two of them differ from their common
\* normalized form
RegistryNames == RawNames \cup { <<"F", ".", "l">> }

\* the serials of the registry
RegistrySerials == {1, 2}

\* lines 323-327: the loop over a dict keeps, of the raw names with the same
\* normalized form, the one the dict hands out last
init_pypi_mirror(n2s) ==
    LET differ == { n \in DOMAIN n2s : normalize_name(n) # n }
    IN  { d \in [{ normalize_name(n) : n \in differ } -> differ] :
            \A k \in DOMAIN d : normalize_name(d[k]) = k }

InitRegistry ==
    /\ nthreads = 1
    /\ upstream = << >>
    /\ \E S \in SUBSET RegistryNames \ {{}} :
         name2serials \in [S -> RegistrySerials]
    /\ normname2name \in init_pypi_mirror(name2serials)
    /\ blob = name2serials
    /\ cache = << >>
    /\ writer = "none"
    /\ mpc = "process"
    /\ changelog = << >>
    /\ mi = 1
    /\ changed = {}
    /\ txcache = << >>
    /\ pc = [r \in Handlers |-> "idle"]
    /\ projectname = [r \in Handlers |-> << >>]
    /\ info = [r \in Handlers |-> NoInfo]
    /\ response = [r \in Handlers |-> NoResponse]
    /\ links = [r \in Handlers |-> << >>]
    /\ nhttp = [r \in Handlers |-> 0]
    /\ result = [r \in Handlers |-> NoResult]
    /\ tx_serial = 0
    /\ master = << >>
    /\ NoCrawl

\* line 370: set_project_serial for an entry of a changelog
registry_set ==
    \E name \in RegistryNames, serial \in RegistrySerials :
        LET reg == set_project_serial(name2serials, normname2name, name, serial)
        IN  /\ name2serials' = reg.name2serials
            /\ normname2name' = reg.normname2name
            /\ changed' = changed \cup {normalize_name(name)}
            /\ UNCHANGED <<replvars, crawlvars, nthreads, upstream, blob, cache, writer,
                           mpc, changelog, mi, txcache, reqvars>>

NextRegistry == registry_set

SpecRegistry == InitRegistry /\ [][NextRegistry]_vars

(***************************************************************************)
(* process_changelog on batches in any order: the registry knows every     *)
(* project, the cache holds records a refresh or an earlier batch left,    *)
(* and the XML-RPC reply is any sequence of entries.                       *)
(***************************************************************************)
\* length of a batch
MaxBatch == 3

\* the serials of batch entries: below, at and above the latest_serial 3
\* of the records
BatchSerials == {2, 3, 4}

\* a record a refresh at serial 3 left, or one a refresh at serial 1 left
\* and a batch bumped to 3
BatchRecords(name) ==
    { [serial |-> s, latest_serial |-> 3, entrylist |-> << >>, projectname |-> name] :
        s \in {1, 3} }

BatchCaches ==
    { c \in UNION { [K -> UNION { BatchRecords(n) : n \in RawNames }] :
                      K \in SUBSET { normalize_name(n) : n \in RawNames } } :
        \A k \in DOMAIN c : normalize_name(c[k].projectname) = k }

Batches ==
    UNION { [1..n -> [name : RawNames, serial : BatchSerials]] : n \in 1..MaxBatch }

InitBatch ==
    /\ nthreads = 1
    /\ upstream = << [name |-> <<"F", "_", ".", "l">>, serial |-> 1] >>
    /\ name2serials = [n \in RawNames |-> 1]
    /\ normname2name = init_normname2name(name2serials)
    /\ blob = name2serials
    /\ cache \in BatchCaches
    /\ writer = "none"
    /\ mpc = "begin"
    /\ changelog \in Batches
    /\ mi = 1
    /\ changed = {}
    /\ txcache = << >>
    /\ pc = [r \in Handlers |-> "idle"]
    /\ projectname = [r \in Handlers |-> << >>]
    /\ info = [r \in Handlers |-> NoInfo]
    /\ response = [r \in Handlers |-> NoResponse]
    /\ links = [r \in Handlers |-> << >>]
    /\ nhttp = [r \in Handlers |-> 0]
    /\ result = [r \in Handlers |-> NoResult]
    /\ tx_serial = 0
    /\ master = << >>
    /\ NoCrawl

NextBatch ==
    \/ thread_run_begin
    \/ process_changelog_entry
    \/ process_changelog_dump
    \/ thread_run_commit

SpecBatch == InitBatch /\ [][NextBatch]_vars

(***************************************************************************)
(* getreleaselinks on a replica.  The primary commits transactions on      *)
(* PYPILINKS (stores and bumps), the replica applies them in order, and    *)
(* the primary's answer carries its current serial as X-DEVPI-SERIAL.      *)
(***************************************************************************)
\* transactions the primary commits
MaxCommits == 3

\* PYPILINKS on the primary as of its last commit
MasterCache == IF master = << >> THEN << >> ELSE master[Len(master)]

\* the primary commits a refresh of a project or a changelog bump
master_commit ==
    /\ Len(master) < MaxCommits
    /\ \E n \in DOMAIN name2serials, s \in 1..Len(upstream) :
         \/ /\ s \in SerialsOf(n)
            /\ LET ls == releaselinks(parse_index(n, SimplePage(n, s)))
                   es == [i \in 1..Len(ls) |-> maplink(ls[i])]
               IN  master' = Append(master, dump_project_cache(MasterCache, n, es, s))
         \/ /\ normalize_name(n) \in DOMAIN MasterCache
            /\ master' = Append(master,
                                bump_latest(MasterCache, normalize_name(n), s).cache)
    /\ UNCHANGED <<crawlvars, nthreads, upstream, name2serials, normname2name, blob, cache,
                   writer, mirrorvars, reqvars, tx_serial>>

\* the replication thread applies the primary's next transaction
replica_apply ==
    /\ tx_serial < Len(master)
    /\ tx_serial' = tx_serial + 1
    /\ cache' = master[tx_serial + 1]
    /\ UNCHANGED <<crawlvars, nthreads, upstream, name2serials, normname2name, blob,
                   writer, mirrorvars, reqvars, master>>

\* keyfs.notifier.wait_tx_serial(serial) returns
wait_tx_serial(serial) == tx_serial >= serial

\* lines 231-235: the primary answers 200; the handler reads X-DEVPI-SERIAL
getreleaselinks_replica_response(r) ==
    /\ pc[r] = "httpget"
    /\ response' = [response EXCEPT ![r] =
                       [serial |-> -1, devpi_serial |-> Len(master)]]
    /\ pc' = [pc EXCEPT ![r] = "wait"]
    /\ UNCHANGED <<crawlvars, nthreads, upstream, name2serials, normname2name, blob, cache,
                   writer, mirrorvars, projectname, info, links, nhttp, result,
                   replvars>>

\* mutant: the handler does not wait for the serial
getreleaselinks_replica_reread_nowait(r) ==
    /\ pc[r] = "wait"
    /\ LET got == load_cache_entries(cache, projectname[r])
       IN  result' = [result EXCEPT ![r] =
                         IF got.hit THEN Entries(got.entries) ELSE Status(502)]
    /\ pc' = [pc EXCEPT ![r] = "done"]
    /\ UNCHANGED <<crawlvars, nthreads, upstream, name2serials, normname2name, blob, cache,
                   writer, mirrorvars, projectname, info, response, links, nhttp,
                   replvars>>

\* lines 236-244: the wait is over; new transaction, the cache is read again
getreleaselinks_replica_reread(r) ==
    /\ pc[r] = "wait"
    /\ wait_tx_serial(response[r].devpi_serial)
    /\ LET got == load_cache_entries(cache, projectname[r])
       IN  result' = [result EXCEPT ![r] =
                         IF got.hit THEN Entries(got.entries) ELSE Status(502)]
    /\ pc' = [pc EXCEPT ![r] = "done"]
    /\ UNCHANGED <<crawlvars, nthreads, upstream, name2serials, normname2name, blob, cache,
                   writer, mirrorvars, projectname, info, response, links, nhttp,
                   replvars>>

\* a replica that starts with the registry of a two-project upstream and an
\* empty keyfs
InitReplica ==
    /\ nthreads = 1
    /\ upstream = << [name |-> <<"F", "_", ".", "l">>, serial |-> 1],
                     [name |-> <<"d">>, serial |-> 2],
                     [name |-> <<"d">>, serial |-> 3] >>
    /\ name2serials = list_packages_with_serial
    /\ normname2name = init_normname2name(name2serials)
    /\ blob = name2serials
    /\ cache = << >>
    /\ writer = "none"
    /\ mpc = "poll"
    /\ changelog = << >>
    /\ mi = 1
    /\ changed = {}
    /\ txcache = << >>
    /\ pc = [r \in Handlers |-> "idle"]
    /\ projectname = [r \in Handlers |-> << >>]
    /\ info = [r \in Handlers |-> NoInfo]
    /\ response = [r \in Handlers |-> NoResponse]
    /\ links = [r \in Handlers |-> << >>]
    /\ nhttp = [r \in Handlers |-> 0]
    /\ result = [r \in Handlers |-> NoResult]
    /\ tx_serial = 0
    /\ master = << >>
    /\ NoCrawl

NextReplica ==
    \/ master_commit
    \/ replica_apply
    \/ \E r \in Handlers : getreleaselinks_start(r)
    \/ \E r \in Handlers : getreleaselinks_error(r)
    \/ \E r \in Handlers : getreleaselinks_replica_response(r)
    \/ \E r \in Handlers : getreleaselinks_replica_reread(r)
    \/ \E r \in Handlers : getreleaselinks_return(r)

SpecReplica == InitReplica /\ [][NextReplica]_vars

(***************************************************************************)
(* Properties.                                                             *)
(***************************************************************************)
IsFresh(rec) == rec.serial >= rec.latest_serial

\* the step in which handler r takes up a getreleaselinks call
Starts(r) == pc[r] = "idle" /\ pc'[r] # "idle"

RegistryUnchanged ==
    /\ name2serials' = name2serials
    /\ normname2name' = normname2name
    /\ blob' = blob

\* C1: every committed cache record has latest_serial >= serial.
C1_LatestSerialAtLeastSerial ==
    \A k \in DOMAIN cache : cache[k].latest_serial >= cache[k].serial

\* a record a changelog batch has bumped after a refresh wrote it
C1_Witness ==
    \E k \in DOMAIN cache : cache[k].latest_serial > cache[k].serial

\* C2: once the changelog thread and the refreshes have finished, a record
\* that is served as fresh has a serial at least the registry's serial of
\* the project it was fetched for.
C2_FreshOnlyIfSerialCurrent ==
    (/\ mpc \in {"poll", "sleep"}
     /\ \A r \in Handlers : pc[r] \in {"idle", "done"})
    => \A k \in DOMAIN cache :
         IsFresh(cache[k]) =>
            cache[k].serial >= name2serials[cache[k].projectname]

\* the serial of the last entry of the batch for the name of entry i
LastSerialInBatch(i) ==
    LET same == { j \in 1..Len(changelog) : changelog[j].name = changelog[i].name }
    IN  changelog[Max(same)].serial

\* C3: when process_changelog is over, every entry of the batch has been
\* applied: the registry holds each name with the serial of its last entry
\* and an existing record has latest_serial >= the entry's serial.
C3_BatchFullyApplied ==
    mpc = "commit" =>
      \A i \in 1..Len(changelog) :
         LET x == changelog[i]
             normname == normalize_name(x.name)
         IN  /\ x.name \in DOMAIN name2serials
             /\ name2serials[x.name] = LastSerialInBatch(i)
             /\ normname \in DOMAIN txcache =>
                  txcache[normname].latest_serial >= x.serial

\* C4: a changelog entry with a serial above the record's serial leaves the
\* record stale, the commit publishes it, and a getreleaselinks that finds
\* the record stale returns nothing from the cache and sends the upstream
\* request.
C4_BumpMakesStaleAndRefetch ==
    [][ /\ (mpc = "process" /\ mi' = mi + 1) =>
             LET x == changelog[mi]
                 k == normalize_name(x.name)
             IN  (k \in DOMAIN txcache /\ txcache[k].serial < x.serial) =>
                    txcache'[k].serial < txcache'[k].latest_serial
        /\ (mpc = "commit" /\ mpc' = "sleep") => cache' = txcache
        /\ \A r \in Handlers :
             Starts(r) =>
               LET k == normalize_name(projectname'[r])
               IN  (k \in DOMAIN cache /\ cache[k].serial < cache[k].latest_serial) =>
                      /\ pc'[r] = "httpget"
                      /\ nhttp'[r] = 1
                      /\ result'[r] = NoResult
      ]_vars

\* a handler waits for the upstream page of a project whose record is stale
C4_Witness ==
    \E r \in Handlers :
       /\ pc[r] = "httpget"
       /\ normalize_name(info[r]) \in DOMAIN cache
       /\ cache[normalize_name(info[r])].serial
             < cache[normalize_name(info[r])].latest_serial

\* C5: a call that finds the record fresh returns the entries rebuilt from
\* the entrylist, in order, sends no HTTP request and writes nothing.
C5_FreshRecordServedFromCache ==
    [][ \A r \in Handlers :
          Starts(r) =>
            LET k == normalize_name(projectname'[r])
            IN  (k \in DOMAIN cache /\ IsFresh(cache[k])) =>
                   /\ pc'[r] = "done"
                   /\ result'[r].kind = "entries"
                   /\ Len(result'[r].entries) = Len(cache[k].entrylist)
                   /\ \A i \in 1..Len(cache[k].entrylist) :
                        LET e == result'[r].entries[i]
                        IN  <<e.relpath, e.md5, e.key.name>> = cache[k].entrylist[i]
                   /\ nhttp'[r] = 0
                   /\ cache' = cache
                   /\ RegistryUnchanged
      ]_vars

\* a call has returned cached entries without any HTTP request
C5_Witness ==
    \E r \in Handlers :
       /\ pc[r] = "done"
       /\ result[r].kind = "entries"
       /\ nhttp[r] = 0
       /\ Len(result[r].entries) >= 2

\* no raw name of the registry has the normalized form of name
Unregistered(name) ==
    \A n \in DOMAIN name2serials : normalize_name(n) # normalize_name(name)

C7_StalePageRefused ==
    [][ \A r \in Handlers :
          (pc[r] = "httpget" /\ response'[r] # response[r]) =>
             IF response'[r].serial < name2serials[info[r]]
             THEN /\ pc'[r] = "done"
                  /\ result'[r] = Status(-2)
                  /\ links'[r] = << >>
                  /\ cache' = cache
             ELSE /\ pc'[r] = "store"
                  /\ result'[r] = NoResult
      ]_vars

\* a call returned -2
C7_Witness ==
    \E r \in Handlers : pc[r] = "done" /\ result[r] = Status(-2)

\* C8: the store writes, under the normalized name, serial = latest_serial =
\* the upstream serial, the maplink images of the release links in order and
\* the raw name, leaves the other records alone and returns those entries.
C8_RefreshStoresRecord ==
    [][ \A r \in Handlers :
          (pc[r] = "store" /\ pc'[r] = "done") =>
             LET k == normalize_name(info[r])
                 es == [i \in 1..Len(links[r]) |-> maplink(links[r][i])]
             IN  /\ DOMAIN cache' = DOMAIN cache \cup {k}
                 /\ cache'[k].serial = response[r].serial
                 /\ cache'[k].latest_serial = response[r].serial
                 /\ cache'[k].projectname = info[r]
                 /\ cache'[k].entrylist =
                       [i \in 1..Len(es) |-> <<es[i].relpath, es[i].md5, es[i].key.name>>]
                 /\ \A j \in DOMAIN cache \ {k} : cache'[j] = cache[j]
                 /\ result'[r] = Entries(es)
      ]_vars

\* a refresh has stored and returned at least two entries
C8_Witness ==
    \E r \in Handlers :
       /\ pc[r] = "done"
       /\ result[r].kind = "entries"
       /\ nhttp[r] >= 1
       /\ Len(result[r].entries) >= 2
       /\ normalize_name(info[r]) \in DOMAIN cache
       /\ cache[normalize_name(info[r])].serial = response[r].serial

\* C9: on a replica the call returns after a 200 answer only when the
\* applied serial has reached X-DEVPI-SERIAL; it returns the entries of the
\* record it then reads if that record is fresh and 502 otherwise; it
\* parses nothing, maps no link, and the local records change only by
\* replication.
C9_ReplicaWaitsThenRereads ==
    [][ /\ \A r \in Handlers :
             (pc[r] = "wait" /\ pc'[r] = "done") =>
                LET k == normalize_name(projectname[r])
                IN  /\ tx_serial >= response[r].devpi_serial
                    /\ IF k \in DOMAIN cache /\ IsFresh(cache[k])
                       THEN /\ result'[r].kind = "entries"
                            /\ Len(result'[r].entries) = Len(cache[k].entrylist)
                            /\ \A i \in 1..Len(cache[k].entrylist) :
                                 LET e == result'[r].entries[i]
                                 IN  <<e.relpath, e.md5, e.key.name>>
                                        = cache[k].entrylist[i]
                       ELSE result'[r] = Status(502)
                    /\ links'[r] = << >>
                    /\ cache' = cache
        /\ \A r \in Handlers : links'[r] = << >> /\ pc'[r] # "store"
        /\ cache' # cache =>
             (tx_serial' = tx_serial + 1 /\ cache' = master[tx_serial'])
      ]_vars

\* a replica handler waited for a serial the replica had not applied and
\* then returned entries
C9_Witness ==
    \E r \in Handlers :
       /\ pc[r] = "done"
       /\ result[r].kind = "entries"
       /\ Len(result[r].entries) >= 2
       /\ response[r].devpi_serial >= 2

\* C10: while a batch is applied, the latest_serial of every record that
\* existed before is the maximum of its value before the batch and the
\* serials of the entries applied so far to its key; it is never lower
\* than before.
C10_LatestSerialIsMaximum ==
    mpc \in {"process", "dump", "commit"} =>
      \A k \in DOMAIN cache :
         LET applied == { changelog[i].serial :
                            i \in { j \in 1..(mi - 1) :
                                      normalize_name(changelog[j].name) = k } }
         IN  /\ k \in DOMAIN txcache
             /\ txcache[k].latest_serial = Max({cache[k].latest_serial} \cup applied)
             /\ txcache[k].latest_serial >= cache[k].latest_serial

\* a batch applied two entries in descending order to one record and
\* raised its latest_serial
C10_Witness ==
    /\ mpc = "commit"
    /\ \E k \in DOMAIN cache :
         /\ txcache[k].latest_serial > cache[k].latest_serial
         /\ \E i, j \in 1..(mi - 1) :
              /\ i < j
              /\ normalize_name(changelog[i].name) = k
              /\ normalize_name(changelog[j].name) = k
              /\ changelog[i].serial > changelog[j].serial

\* C11: the registry blob is rewritten only after the write transaction of
\* the batch has committed, never while that transaction is open.
C11_BlobRewrittenAfterCommit ==
    [][blob' # blob => writer = "none"]_vars

\* C12: at the refresh sleep that ends an iteration, the blob equals the
\* in-memory name -> serial table.
C12_BlobEqualsRegistryAtSleep ==
    mpc = "sleep" => blob = name2serials

\* C13: an absent or empty reply sends the loop to the sleep and from there
\* to the next poll; these steps open no write transaction and leave the
\* registry, the cache and the blob alone, and until the next poll nothing
\* moves the registry, so the cursor is the same.
C13_AbsentOrEmptyBatchIsNoOp ==
    [][/\ (mpc = "poll" /\ mpc' # "poll" /\ changelog' = << >>)
            => /\ mpc' = "sleep"
               /\ UNCHANGED <<name2serials, normname2name, blob, cache, writer,
                              txcache>>
       /\ (mpc = "sleep" /\ changelog = << >> /\ mpc' # "sleep")
            => /\ mpc' = "poll"
               /\ UNCHANGED <<name2serials, normname2name, blob, cache, writer>>
       /\ (mpc \in {"poll", "sleep"} /\ changelog = << >>)
            => UNCHANGED <<name2serials, normname2name, blob>>]_vars

\* the reply was absent although the upstream has events above the cursor
C13_Witness ==
    /\ mpc = "sleep"
    /\ changelog = << >>
    /\ Len(upstream) > Max(Range(name2serials))
    /\ blob = name2serials

\* C15: the reverse index holds only entries n -> r with r a raw name of
\* the registry, normalize(r) = n and r # n, and the normalized form of
\* every raw name that differs from it is a key of the reverse index.
C15_ReverseIndexInvariant ==
    /\ \A n \in DOMAIN normname2name :
         LET r == normname2name[n]
         IN  r \in DOMAIN name2serials /\ normalize_name(r) = n /\ r # n
    /\ \A r \in DOMAIN name2serials :
         normalize_name(r) # r => normalize_name(r) \in DOMAIN normname2name

\* a set operation has replaced the raw name behind a normalized form, and
\* another has added a name that is its own normalized form
C15_Witness ==
    /\ <<"d">> \in changed
    /\ <<"f", "-", "l">> \in changed
    /\ {<<"F", "_", ".", "l">>, <<"F", ".", "l">>, <<"d">>} \subseteq DOMAIN name2serials
    /\ <<"d">> \notin DOMAIN normname2name
    /\ normname2name[<<"f", "-", "l">>] = <<"F", ".", "l">>

\* the URLs of a page, in page order
PageURLs(page) == [i \in 1..Len(page) |-> page[i].url]

\* the links of a page that are offered to the merge: valid, not taken as
\* egg links, archives of the project
MergeCandidates(page, scrape) ==
    SelectSeq(PageURLs(page),
              LAMBDA u : /\ is_valid_http_url(u)
                         /\ ~(scrape /\ u.eggfragment # << >>)
                         /\ is_archive_of_project(u, normalize_name(CrawlProject)))

\* the merge candidates of the crawled pages, in the order of the crawl
RECURSIVE CrawledCandidates(_)
CrawledCandidates(cs) ==
    IF cs = << >> THEN << >>
    ELSE (IF Head(cs).html THEN MergeCandidates(ScrapePage(Head(cs).url), FALSE)
          ELSE << >>) \o CrawledCandidates(Tail(cs))

SeenArchives == MergeCandidates(cpage, TRUE) \o CrawledCandidates(crawled)

\* the crawl URLs of the simple page: valid rel-links not taken as archives
CrawlSet(page) ==
    { u \in Range(PageURLs(page)) :
        /\ \E i \in 1..Len(page) : page[i].url = u /\ page[i].rel
        /\ is_valid_http_url(u)
        /\ u \notin Range(MergeCandidates(page, TRUE)) }

\* C14: with N crawl URLs on the simple page, the crawl fetches only crawl
\* URLs, each at most once and at its end each exactly once; fetched plus
\* pending is always N, so the loop ends after N fetches and the call has
\* sent at most N + 1 requests; pages fed back add no crawl URL.
C14_CrawlFetchesEachOnce ==
    cpc \in {"crawl", "done"} =>
        LET N == Cardinality(CrawlSet(cpage))
            fetched == { crawled[i].url : i \in 1..Len(crawled) }
        IN  /\ parser.crawllinks = CrawlSet(cpage)
            /\ fetched \subseteq CrawlSet(cpage)
            /\ Cardinality(fetched) = Len(crawled)
            /\ pending = CrawlSet(cpage) \ fetched
            /\ Len(crawled) + Cardinality(pending) = N
            /\ nhttp[1] = 1 + Len(crawled)
            /\ nhttp[1] <= N + 1
            /\ (cpc = "done" => fetched = CrawlSet(cpage) /\ nhttp[1] = N + 1)

\* three crawl URLs were fetched, and the page behind one of them had a
\* rel-link that is no crawl URL
C14_Witness ==
    /\ cpc = "done"
    /\ Len(crawled) = 3
    /\ \E i \in 1..Len(crawled) :
         /\ crawled[i].html
         /\ \E j \in 1..Len(ScrapePage(crawled[i].url)) :
              /\ ScrapePage(crawled[i].url)[j].rel
              /\ ScrapePage(crawled[i].url)[j].url \notin parser.crawllinks

\* C16: the link kept for a basename is the first link with a digest seen
\* for it over the simple page and the crawled pages, or the first link
\* seen when none had a digest: of two links of which one has a digest the
\* digested one is kept in either order, and a link with a digest stays.
C16_DigestedLinkRetained ==
    cpc \in {"crawl", "done"} =>
        /\ DOMAIN parser.basename2link = { u.basename : u \in Range(SeenArchives) }
        /\ \A b \in DOMAIN parser.basename2link :
             LET withb == SelectSeq(SeenArchives, LAMBDA u : u.basename = b)
                 digested == SelectSeq(withb, LAMBDA u : u.md5 # "")
             IN  parser.basename2link[b] =
                     IF digested # << >> THEN digested[1] ELSE withb[1]

\* a basename was seen without digest, then with one, then with another
C16_Witness ==
    /\ cpc = "done"
    /\ \E i, j, k \in 1..Len(SeenArchives) :
         /\ i < j /\ j < k
         /\ SeenArchives[i] = ArchiveURL(<<"d">>, 1, "")
         /\ SeenArchives[j] = ArchiveURL(<<"d">>, 1, "h")
         /\ SeenArchives[k] = MirrorURL(<<"d">>, 1, "m")
    /\ \E i \in 1..Len(links[1]) : links[1][i] = ArchiveURL(<<"d">>, 1, "h")

\* a sequence without the repetitions of its members
RECURSIVE FirstSeen(_)
FirstSeen(seq) ==
    IF seq = << >> THEN << >>
    ELSE LET front == FirstSeen(SubSeq(seq, 1, Len(seq) - 1))
             last == seq[Len(seq)]
         IN  IF last \in Range(front) THEN front ELSE Append(front, last)

Reversed(seq) == [i \in 1..Len(seq) |-> seq[Len(seq) + 1 - i]]

\* the egg links of a page for the project that name a file
ProjectEggs(page) ==
    SelectSeq(PageURLs(page),
              LAMBDA u : /\ is_valid_http_url(u)
                         /\ u.eggfragment # << >>
                         /\ startswith(normalize_name(u.eggfragment),
                                       normalize_name(CrawlProject))
                         /\ u.basename # NoBasename)

\* the egg links of a page for other projects
OtherEggs(page) ==
    { u \in Range(PageURLs(page)) :
        /\ is_valid_http_url(u)
        /\ u.eggfragment # << >>
        /\ ~startswith(normalize_name(u.eggfragment), normalize_name(CrawlProject)) }

\* C17: the egg list is the project's egg links of the simple page, each
\* once, the one seen first last; after the parse of the simple page the
\* links with egg fragments of other projects are neither in the egg list
\* nor among the archive links.
C17_EggLinksFrontInserted ==
    cpc \in {"crawl", "done"} =>
        /\ parser.egglinks = Reversed(FirstSeen(ProjectEggs(cpage)))
        /\ \A i, j \in 1..Len(parser.egglinks) :
             i # j => parser.egglinks[i] # parser.egglinks[j]
        /\ crawled = << >> =>
             \A u \in OtherEggs(cpage) :
                /\ u \notin Range(parser.egglinks)
                /\ u \notin Range(parser.basename2link)

\* two egg links of the project, in reverse order, and a dropped one
C17_Witness ==
    /\ cpc = "crawl"
    /\ crawled = << >>
    /\ cpage = << Anchor(EggURL(<<"d">>), FALSE),
                  Anchor(EggArchiveURL(<<"d">>, 3, <<"x">>), FALSE),
                  Anchor(EggURL(<<"d", "x">>), FALSE) >>
    /\ parser.egglinks = << EggURL(<<"d", "x">>), EggURL(<<"d">>) >>
    /\ parser.basename2link = << >>

InRegistry(i) ==
    /\ Len(upstream) >= i
    /\ upstream[i].name \in DOMAIN name2serials
    /\ name2serials[upstream[i].name] >= upstream[i].serial

\* event i is in the registry and, with no write transaction open, in the
\* project's record if there is one
Reflected(i) ==
    /\ InRegistry(i)
    /\ writer = "none"
    /\ LET k == normalize_name(upstream[i].name)
       IN  k \in DOMAIN cache => cache[k].latest_serial >= upstream[i].serial

\* C19: every upstream event comes to be in the registry for good and,
\* at a moment with no write transaction open, in the project's record if
\* there is one, also when the batch that brought it was left by the early
\* return.
C19_EventsEventuallyReflected ==
    /\ [][\A i \in 1..MaxEvents : InRegistry(i) => InRegistry(i)']_vars
    /\ \A i \in 1..MaxEvents : [](Len(upstream) < i) \/ <>Reflected(i)

\* the early return has left a batch whose last event is not yet in the
\* registry
C19_Witness ==
    /\ mpc = "commit"
    /\ mi <= Len(changelog)
    /\ changelog[Len(changelog)].name \notin DOMAIN name2serials

\* C20: from one committed write to the next the serial of a project's
\* record never decreases.
C20_SerialNeverDecreases ==
    [][\A k \in DOMAIN cache :
          k \in DOMAIN cache' /\ cache'[k].serial >= cache[k].serial]_vars

====
